---- MODULE Spec2Model ----
(***************************************************************************)
(* A model of the AI Connector gateway: the usage tracker of               *)
(* app/runtime.py (record / register / unregister / current over an        *)
(* asyncio lock and bounded asyncio queues), the monitoring WebSocket of   *)
(* app/main.py that consumes a subscriber queue, the two provider          *)
(* adapters' streaming loops and the three completion paths of             *)
(* app/main.py.                                                            *)
(*                                                                         *)
(* Scheduling follows asyncio: a task runs without interruption until it   *)
(* suspends, so one action is one run of a coroutine between two           *)
(* suspension points.  The tracker's lock is never held across a           *)
(* suspension, so acquiring it never suspends.  A put on a full queue      *)
(* suspends the putter in the queue's FIFO of putters; a get wakes the     *)
(* first putter, which is scheduled (FIFO) and re-tests the queue when it  *)
(* runs.                                                                   *)
(*                                                                         *)
(* Optional values are <<>> (None) or <<v>>.  Money is counted in units    *)
(* of 1e-10 USD, the precision estimate_cost_usd rounds to.  Timestamps    *)
(* (last_updated) are left out: no operation reads them.                   *)
(***************************************************************************)
EXTENDS Integers, Sequences, FiniteSets, TLC

(* ------------------------------ bounds -------------------------------- *)

\* record() calls made in one behaviour
MaxRecords == 3
\* capacity of a subscriber queue; runtime.py:78 uses maxsize=10, scaled down
\* so that full queues are reached within MaxRecords
QueueCap == 2
\* lines read from one streamed response body
MaxLines == 2

\* concurrent callers of the tracker / concurrent completion requests
Tasks == {"t1", "t2"}
\* monitoring connections
Subs == {"A", "B"}

None == <<>>
Some(v) == <<v>>

\* the longest text given to the extraction
MaxText == 3

(* --------------------------- dictionaries ----------------------------- *)

\* dict.get(k, d)
Get(d, k, dflt) == IF k \in DOMAIN d THEN d[k] ELSE dflt

\* truthiness of an Optional[dict]: None and {} are false
Truthy(opt) == opt # None /\ DOMAIN opt[1] # {}

(* ----------------------------- tracker -------------------------------- *)

VARIABLES
  lock,             \* holder of UsageTracker._lock, "free" when released
  per_key,          \* UsageTracker._per_key: key -> UsageAggregate
  listeners,        \* UsageTracker._listeners in insertion order: <<[id, queue]>>
  listener_id_seq,  \* UsageTracker._listener_id_seq
  last_broadcast,   \* UsageTracker._last_broadcast: None or Some(snapshot)
  queues,           \* contents of the asyncio.Queue created by each connection
  putters,          \* per queue: the tasks suspended in put(), FIFO
  ready,            \* woken putters, in the order the event loop runs them
  pc,               \* per task: "idle", "put_wait", "put_woken"
  snap,             \* per task: record()'s local variable snapshot
  rest,             \* per task: the captured listeners still to be served
  returned,         \* history: the snapshot the latest record() to return returned
  spc,              \* per connection: "new", "get", "send", "closed"
  lid,              \* per connection: the listener id register() returned
  dequeued,         \* per connection: the snapshots queue.get() returned
  calls,            \* history: the arguments of record(), in lock order
  history,          \* history: the table after each critical section
  regAt,            \* history: Len(history) when the connection registered
  handler,          \* per task: the completion request handler running in it
  call              \* history: the latest direct call of an operation, its
                    \* arguments and what it returned

trackerVars == <<lock, per_key, listeners, listener_id_seq, last_broadcast,
                 queues, putters, ready, pc, snap, rest, returned, calls, history>>
monVars == <<spc, lid, dequeued, regAt>>
orchVars == <<handler>>
apiVars == <<call>>
vars == <<trackerVars, monVars, orchVars, apiVars>>

\* UsageAggregate(provider=provider, model=model)
NewAggregate(provider, model) ==
  [provider |-> provider, model |-> model, requests |-> 0, prompt_tokens |-> 0,
   completion_tokens |-> 0, prompt_chars |-> 0, eval_count |-> 0, cost_usd |-> 0]

\* self._per_key = {}
EmptyTable == [k \in {} |-> NewAggregate("", "")]

\* key = f"{provider}:{model}"
KeyOf(provider, model) == provider \o ":" \o model

\* mutant: the cost of the call is not added to the aggregate
UpdatedAggregateNoCost(agg, usage, prompt_chars, cost_usd) ==
  LET a1 == [agg EXCEPT !.requests = @ + 1]
      a2 == IF Truthy(usage)
            THEN [a1 EXCEPT
                    !.prompt_tokens = @ + Get(usage[1], "prompt_tokens", 0),
                    !.completion_tokens = @ + Get(usage[1], "completion_tokens", 0),
                    !.eval_count = @ + Get(usage[1], "eval_count", 0)]
            ELSE a1
  IN  IF prompt_chars # None
      THEN [a2 EXCEPT !.prompt_chars = @ + prompt_chars[1]] ELSE a2

\* the body of record()'s critical section on one aggregate
UpdatedAggregate(agg, usage, prompt_chars, cost_usd) ==
  LET a1 == [agg EXCEPT !.requests = @ + 1]
      a2 == IF Truthy(usage)
            THEN [a1 EXCEPT
                    !.prompt_tokens = @ + Get(usage[1], "prompt_tokens", 0),
                    !.completion_tokens = @ + Get(usage[1], "completion_tokens", 0),
                    !.eval_count = @ + Get(usage[1], "eval_count", 0)]
            ELSE a1
      a3 == IF prompt_chars # None
            THEN [a2 EXCEPT !.prompt_chars = @ + prompt_chars[1]] ELSE a2
  IN  IF cost_usd # None THEN [a3 EXCEPT !.cost_usd = @ + cost_usd[1]] ELSE a3

\* mutant: the aggregate found under the key is not reused, so the call
\* overwrites what earlier calls accumulated
RecordedTableLost(table, a) ==
  LET key == KeyOf(a.provider, a.model)
      new == UpdatedAggregate(NewAggregate(a.provider, a.model),
                              a.usage, a.prompt_chars, a.cost_usd)
  IN  [k \in DOMAIN table \cup {key} |-> IF k = key THEN new ELSE table[k]]

\* the table after record(a.provider, a.model, a.usage, ...)
RecordedTable(table, a) ==
  LET key == KeyOf(a.provider, a.model)
      agg == IF key \in DOMAIN table THEN table[key]
             ELSE NewAggregate(a.provider, a.model)
      new == UpdatedAggregate(agg, a.usage, a.prompt_chars, a.cost_usd)
  IN  [k \in DOMAIN table \cup {key} |-> IF k = key THEN new ELSE table[k]]

RECURSIVE SumField(_, _, _)
SumField(table, keys, f) ==
  IF keys = {} THEN 0
  ELSE LET k == CHOOSE x \in keys : TRUE
       IN  table[k][f] + SumField(table, keys \ {k}, f)

TotalFields ==
  {"requests", "prompt_tokens", "completion_tokens", "prompt_chars",
   "eval_count", "cost_usd"}

\* mutant: totals[f] = agg.f instead of totals[f] += agg.f
BuildSnapshotAssigned(table) ==
  [totals |-> [f \in TotalFields |->
                 IF DOMAIN table = {} THEN 0
                 ELSE table[CHOOSE k \in DOMAIN table : TRUE][f]],
   per_model |-> [k \in DOMAIN table |-> table[k]]]

\* mutant: totals.cost_usd is left at its initial 0.0
BuildSnapshotNoCost(table) ==
  [totals |-> [f \in TotalFields |->
                 IF f = "cost_usd" THEN 0 ELSE SumField(table, DOMAIN table, f)],
   per_model |-> [k \in DOMAIN table |-> table[k]]]

\* _build_snapshot_locked
BuildSnapshot(table) ==
  [totals |-> [f \in TotalFields |-> SumField(table, DOMAIN table, f)],
   per_model |-> [k \in DOMAIN table |-> table[k]]]

\* snapshot.model_dump(mode="json")
ModelDump(snapshot) ==
  [totals |-> snapshot.totals, per_model |-> snapshot.per_model]

\* mutant: the seed is built from a fresh table, not from the tracker's
CurrentSnapshotZero == BuildSnapshot(EmptyTable)

\* mutant: the snapshot of the first record call is returned for ever
CurrentSnapshotFirst == IF history # <<>> THEN BuildSnapshot(history[1])
                        ELSE BuildSnapshot(per_key)

\* self._last_broadcast or self._build_snapshot_locked()
CurrentSnapshot == IF last_broadcast # None THEN last_broadcast[1]
                   ELSE BuildSnapshot(per_key)

\* asyncio.Queue.full()
Full(q) == Len(q) >= QueueCap

\* "for queue in listeners: await queue.put(...)" run until it suspends:
\* the queues after the puts that went through, and the listeners left
RECURSIVE PutAll(_, _, _)
PutAll(qs, ls, it) ==
  IF ls = <<>> THEN [queues |-> qs, rest |-> <<>>]
  ELSE IF Full(qs[Head(ls)]) THEN [queues |-> qs, rest |-> ls]
  ELSE PutAll([qs EXCEPT ![Head(ls)] = Append(@, it)], Tail(ls), it)

\* list(self._listeners.values())
ListenerQueues == [i \in 1..Len(listeners) |-> listeners[i].queue]

\* "for queue in listeners: await queue.put(snapshot.model_dump(...))" of
\* task t over the listeners ls, up to its suspension or to "return snapshot"
Publish(t, snapshot, ls) ==
  LET r == PutAll(queues, ls, ModelDump(snapshot))
  IN  /\ queues' = r.queues
      /\ rest' = [rest EXCEPT ![t] = r.rest]
      /\ IF r.rest = <<>>
         THEN /\ pc' = [pc EXCEPT ![t] = "idle"]
              /\ snap' = [snap EXCEPT ![t] = None]
              /\ returned' = Some(snapshot)
              /\ UNCHANGED putters
         ELSE /\ pc' = [pc EXCEPT ![t] = "put_wait"]
              /\ snap' = [snap EXCEPT ![t] = Some(snapshot)]
              /\ putters' = [putters EXCEPT ![Head(r.rest)] = Append(@, t)]
              /\ UNCHANGED returned

\* the mutation of RecordCall that pushes to the queues inside "async with
\* self._lock": the lock is still held when a put suspends
RecordCallLocked(t, a) ==
  /\ lock = "free"
  /\ LET table == RecordedTable(per_key, a)
         snapshot == BuildSnapshot(table)
     IN  /\ per_key' = table
         /\ last_broadcast' = Some(snapshot)
         /\ calls' = Append(calls, a)
         /\ history' = Append(history, table)
         /\ Publish(t, snapshot, ListenerQueues)
  /\ lock' = IF pc'[t] = "idle" THEN "free" ELSE t
  /\ UNCHANGED <<listeners, listener_id_seq, ready>>

\* UsageTracker.record, from the call to its first suspension (or its return)
RecordCall(t, a) ==
  /\ lock = "free"
  /\ LET table == RecordedTable(per_key, a)
         snapshot == BuildSnapshot(table)
     IN  /\ per_key' = table
         /\ last_broadcast' = Some(snapshot)
         /\ calls' = Append(calls, a)
         /\ history' = Append(history, table)
         /\ Publish(t, snapshot, ListenerQueues)
  /\ UNCHANGED <<lock, listeners, listener_id_seq, ready>>

\* a putter woken by a get() runs: put() re-tests the queue (the slot may be
\* taken again), then the loop of record() goes on
ResumePut(t) ==
  /\ pc[t] = "put_woken"
  /\ ready # <<>> /\ Head(ready) = t
  /\ ready' = Tail(ready)
  /\ Publish(t, snap[t][1], rest[t])
  /\ UNCHANGED <<lock, per_key, listeners, listener_id_seq, last_broadcast,
                 calls, history>>

\* the woken putter is a direct caller of record()
RecordResume(t) ==
  /\ ResumePut(t)
  /\ UNCHANGED <<monVars, orchVars, apiVars>>

\* the arguments the direct callers of record() pass
RecordArgs ==
  { [provider |-> "openai", model |-> "gpt-4o-mini",
     usage |-> Some([prompt_tokens |-> 1, completion_tokens |-> 1]),
     prompt_chars |-> Some(2), cost_usd |-> Some(7500)],
    [provider |-> "ollama", model |-> "llama3",
     usage |-> None, prompt_chars |-> None, cost_usd |-> None] }

\* a task calls usage_tracker.record(...)
Record(t) ==
  /\ pc[t] = "idle"
  /\ Len(calls) < MaxRecords
  /\ \E a \in RecordArgs : RecordCall(t, a)
  /\ UNCHANGED <<monVars, orchVars, apiVars>>

(* ----------------------- monitoring connections ----------------------- *)

\* self._listeners[listener_id] = queue
DictSet(d, id, q) ==
  IF \E i \in 1..Len(d) : d[i].id = id
  THEN [i \in 1..Len(d) |-> IF d[i].id = id THEN [id |-> id, queue |-> q] ELSE d[i]]
  ELSE Append(d, [id |-> id, queue |-> q])

\* mutant: an id that is not registered removes the oldest entry
DictPopOldest(d, id) ==
  IF \E i \in 1..Len(d) : d[i].id = id
  THEN SelectSeq(d, LAMBDA e : e.id # id)
  ELSE IF d = <<>> THEN d ELSE Tail(d)

\* self._listeners.pop(listener_id, None)
DictPop(d, id) == SelectSeq(d, LAMBDA e : e.id # id)

\* the mutation of RegisterCall that takes the number of registered
\* listeners as the id
RegisterCallReuse(s) ==
  /\ lock = "free"
  /\ lid' = [lid EXCEPT ![s] = Len(listeners)]
  /\ listener_id_seq' = listener_id_seq + 1
  /\ listeners' = DictSet(listeners, Len(listeners), s)
  /\ queues' = [queues EXCEPT ![s] = <<ModelDump(CurrentSnapshot)>>]
  /\ UNCHANGED <<lock, per_key, last_broadcast>>

\* UsageTracker.register for the queue of connection s: the lock is free, the
\* new queue is empty, so the call runs to its return without suspending
RegisterCall(s) ==
  /\ lock = "free"
  /\ lid' = [lid EXCEPT ![s] = listener_id_seq]
  /\ listener_id_seq' = listener_id_seq + 1
  /\ listeners' = DictSet(listeners, listener_id_seq, s)
  /\ queues' = [queues EXCEPT ![s] = <<ModelDump(CurrentSnapshot)>>]
  /\ UNCHANGED <<lock, per_key, last_broadcast>>

\* UsageTracker.unregister
UnregisterCall(id) ==
  /\ lock = "free"
  /\ listeners' = DictPop(listeners, id)
  /\ UNCHANGED <<lock, per_key, last_broadcast, listener_id_seq>>

\* websocket_monitoring: accept, then register
MonConnect(s) ==
  /\ spc[s] = "new"
  /\ RegisterCall(s)
  /\ spc' = [spc EXCEPT ![s] = "get"]
  /\ regAt' = [regAt EXCEPT ![s] = Len(history)]
  /\ UNCHANGED <<putters, ready, pc, snap, rest, returned, calls, history, dequeued,
                 orchVars, apiVars>>

\* snapshot = await queue.get(), which wakes the first suspended putter;
\* then send_json starts
MonGet(s) ==
  /\ spc[s] = "get"
  /\ queues[s] # <<>>
  /\ dequeued' = [dequeued EXCEPT ![s] = Append(@, Head(queues[s]))]
  /\ queues' = [queues EXCEPT ![s] = Tail(@)]
  /\ IF putters[s] # <<>>
     THEN /\ putters' = [putters EXCEPT ![s] = Tail(@)]
          /\ ready' = Append(ready, Head(putters[s]))
          /\ pc' = [pc EXCEPT ![Head(putters[s])] = "put_woken"]
     ELSE UNCHANGED <<putters, ready, pc>>
  /\ spc' = [spc EXCEPT ![s] = "send"]
  /\ UNCHANGED <<lock, per_key, listeners, listener_id_seq, last_broadcast,
                 snap, rest, returned, calls, history, lid, regAt, orchVars, apiVars>>

\* send_json returned
MonSendOk(s) ==
  /\ spc[s] = "send"
  /\ spc' = [spc EXCEPT ![s] = "get"]
  /\ UNCHANGED <<trackerVars, lid, dequeued, regAt, orchVars, apiVars>>

\* send_json raised (WebSocketDisconnect or another exception): break, and
\* the finally clause unregisters
MonSendFail(s) ==
  /\ spc[s] = "send"
  /\ UnregisterCall(lid[s])
  /\ spc' = [spc EXCEPT ![s] = "closed"]
  /\ UNCHANGED <<queues, putters, ready, pc, snap, rest, returned, calls,
                 history, lid, dequeued, regAt, orchVars, apiVars>>

(* ------------------------ requests and pricing ------------------------ *)

\* Settings.default_openai_model, Settings.default_ollama_model
default_openai_model == "gpt-4o-mini"
default_ollama_model == "gpt-oss:20b"

\* the provider registry
PROVIDERS == {"openai", "ollama"}

\* the Literal type of ChatCompletionRequest.provider
ProviderLiteral == {"openai", "ollama"}

\* ResponseFormatConfig(type, json_schema)
ResponseFormatConfig(type, json_schema) == [type |-> type, json_schema |-> json_schema]

\* a json_schema response format without a usable schema
NoSchemaFormat == ResponseFormatConfig("json_schema", None)

\* the bodies callers send: provider absent, recognized or unrecognized,
\* without a response_format, and a recognized provider with a json_schema
\* format that has no schema.  They name no model.
RequestBodies ==
  { [provider |-> p, model |-> None, messages |-> <<"hi">>,
     response_format |-> None] :
      p \in {None, Some("openai"), Some("ollama"), Some("azure")} }
  \cup
  { [provider |-> p, model |-> None, messages |-> <<"hi">>,
     response_format |-> Some(NoSchemaFormat)] :
      p \in {Some("openai"), Some("ollama")} }

\* the bodies of the streaming requests: those that name their provider
\* (the default provider is taken on the non-streaming path)
StreamBodies == {body \in RequestBodies : body.provider # None}

\* runtime_settings.openai_api_key or SETTINGS.openai_api_key, at a call
ApiKeys == {None, Some("sk-test")}

\* the mutation of ModelValidate that accepts any provider name
ModelValidateAny(request_data) ==
  Some([provider |-> IF request_data.provider = None THEN "openai"
                     ELSE request_data.provider[1],
        model |-> request_data.model,
        messages |-> request_data.messages,
        response_format |-> request_data.response_format])

\* ChatCompletionRequest.model_validate: the request, or None when it raises
\* ValidationError; an absent provider takes the default "openai"
ModelValidate(request_data) ==
  IF request_data.provider = None
  THEN Some([provider |-> "openai", model |-> request_data.model,
             messages |-> request_data.messages,
             response_format |-> request_data.response_format])
  ELSE IF request_data.provider[1] \in ProviderLiteral
       THEN Some([provider |-> request_data.provider[1],
                  model |-> request_data.model,
                  messages |-> request_data.messages,
                  response_format |-> request_data.response_format])
       ELSE None

\* resolve_provider: TRUE when a factory is found, FALSE when it raises
\* HTTPException(400, "Unknown provider")
resolve_provider(name) == name \in PROVIDERS

RECURSIVE count_prompt_chars_of(_)
count_prompt_chars_of(messages) ==
  IF messages = <<>> THEN 0
  ELSE Len(Head(messages)) + count_prompt_chars_of(Tail(messages))

\* count_prompt_chars
count_prompt_chars(request) == count_prompt_chars_of(request.messages)

\* payload["model"] of _build_payload
PayloadModel(request) ==
  IF request.model # None THEN request.model[1]
  ELSE IF request.provider = "openai" THEN default_openai_model
  ELSE default_ollama_model

\* "a or b" over integers
PyOr(a, b) == IF a # 0 THEN a ELSE b

\* normalize_usage; a usage dict is a record of its keys with non-null values
normalize_usage(provider, usage) ==
  IF ~Truthy(usage) THEN usage
  ELSE LET u == usage[1] IN
    IF provider = "ollama"
    THEN LET prompt_tokens ==
               PyOr(Get(u, "prompt_eval_count", 0), PyOr(Get(u, "prompt_tokens", 0), 0))
             completion_tokens ==
               PyOr(Get(u, "eval_count", 0), PyOr(Get(u, "completion_tokens", 0), 0))
         IN  Some([prompt_tokens |-> prompt_tokens,
                   completion_tokens |-> completion_tokens,
                   eval_count |-> PyOr(Get(u, "eval_count", 0), PyOr(completion_tokens, 0))])
    ELSE Some([prompt_tokens |-> Get(u, "prompt_tokens", 0),
               completion_tokens |-> Get(u, "completion_tokens", 0)])

\* OPENAI_PRICING per token, in units of 1e-10 USD
OPENAI_PRICING ==
  [m \in {"gpt-4o-mini", "gpt-4o", "gpt-4.1"} |->
     IF m = "gpt-4o-mini" THEN [input |-> 1500, output |-> 6000]
     ELSE [input |-> 25000, output |-> 100000]]

\* str.lower over the model names of this model
Lower(s) == IF s = "GPT-4o" THEN "gpt-4o" ELSE s

\* mutant: only the exact name is looked up in the table
estimate_cost_usd_exact(provider, model, usage) ==
  IF ~Truthy(usage) THEN 0
  ELSE IF provider # "openai" THEN 0
  ELSE IF model \notin DOMAIN OPENAI_PRICING THEN 0
  ELSE Get(usage[1], "prompt_tokens", 0) * OPENAI_PRICING[model].input
       + Get(usage[1], "completion_tokens", 0) * OPENAI_PRICING[model].output

\* estimate_cost_usd
estimate_cost_usd(provider, model, usage) ==
  IF ~Truthy(usage) THEN 0
  ELSE IF provider # "openai" THEN 0
  ELSE IF model \notin DOMAIN OPENAI_PRICING /\ Lower(model) \notin DOMAIN OPENAI_PRICING
       THEN 0
  ELSE LET pricing == IF model \in DOMAIN OPENAI_PRICING THEN OPENAI_PRICING[model]
                      ELSE OPENAI_PRICING[Lower(model)]
       IN  Get(usage[1], "prompt_tokens", 0) * pricing.input
           + Get(usage[1], "completion_tokens", 0) * pricing.output

\* the arguments of usage_tracker.record(provider, model, normalized_usage,
\* prompt_chars=prompt_chars, cost_usd=cost) the completion paths pass
UsageRecord(provider, model, usage, prompt_chars) ==
  LET normalized_usage == normalize_usage(provider, usage)
  IN  [provider |-> provider, model |-> model, usage |-> normalized_usage,
       prompt_chars |-> Some(prompt_chars),
       cost_usd |-> Some(estimate_cost_usd(provider, model, normalized_usage))]

(* --------------------------- text and JSON ---------------------------- *)

\* A text is the sequence of its characters, over the characters of Chars.
Chars == {" ", "{", "}", "1", "h"}

IsSpace(c) == c = " "

RECURSIVE LStrip(_)
LStrip(text) ==
  IF text # <<>> /\ IsSpace(Head(text)) THEN LStrip(Tail(text)) ELSE text

RECURSIVE RStrip(_)
RStrip(text) ==
  IF text # <<>> /\ IsSpace(text[Len(text)])
  THEN RStrip(SubSeq(text, 1, Len(text) - 1)) ELSE text

\* str.strip()
Strip(text) == RStrip(LStrip(text))

\* Python values by type: a str with its text, an int with its digits, a dict
PyStr(text) == [type |-> "str", value |-> text]
PyInt(digits) == [type |-> "int", value |-> digits]
PyDict(members) == [type |-> "dict", value |-> members]

\* json.loads(text), for the JSON the characters of Chars can spell: a
\* number of digits 1 or an object without members, with whitespace around
\* it and inside the braces.  None: it raises JSONDecodeError.
JsonLoads(text) ==
  LET body == Strip(text)
  IN  IF body # <<>> /\ \A i \in 1..Len(body) : body[i] = "1"
      THEN Some(PyInt(body))
      ELSE IF /\ Len(body) >= 2
              /\ body[1] = "{" /\ body[Len(body)] = "}"
              /\ \A i \in 2..(Len(body) - 1) : IsSpace(body[i])
      THEN Some(PyDict(<<>>))
      ELSE None

\* re.search(r"\{.*\}", text, re.DOTALL).group(0): the region from the first
\* "{" to the last "}" after it; None without a match
BraceRegion(text) ==
  LET opens == {i \in 1..Len(text) : text[i] = "{"}
  IN  IF opens = {} THEN None
      ELSE LET first == CHOOSE i \in opens : \A k \in opens : i <= k
               closes == {j \in (first + 1)..Len(text) : text[j] = "}"}
           IN  IF closes = {} THEN None
               ELSE Some(SubSeq(text, first,
                                CHOOSE j \in closes : \A k \in closes : k <= j))

\* OllamaProvider._extract_json_chunk
extract_json_chunk(text) ==
  LET stripped == Strip(text)
  IN  IF stripped = <<>> THEN PyStr(stripped)
      ELSE IF JsonLoads(stripped) # None THEN JsonLoads(stripped)[1]
      ELSE LET match == BraceRegion(stripped)
           IN  IF match # None /\ JsonLoads(match[1]) # None
               THEN JsonLoads(match[1])[1]
               ELSE PyStr(stripped)

\* OllamaProvider._safe_json_loads
safe_json_loads(candidate) ==
  IF candidate.type = "dict" THEN candidate
  ELSE IF candidate.type # "str" THEN candidate
  ELSE extract_json_chunk(candidate.value)

(* -------------------------- response formats -------------------------- *)

\* OpenAIProvider._map_response_format: the mapped format, or None when it
\* raises ValueError
map_response_format(response_format) ==
  IF response_format.type = "text" THEN Some([type |-> "text"])
  ELSE IF response_format.type = "json_object" THEN Some([type |-> "json_object"])
  ELSE IF response_format.type = "json_schema"
  THEN IF ~Truthy(response_format.json_schema) THEN None
       ELSE IF Get(response_format.json_schema[1], "schema", "") = "" THEN None
       ELSE Some([type |-> "json_schema",
                  json_schema |->
                    [name |-> Get(response_format.json_schema[1], "name",
                                  "structured_output"),
                     schema |-> response_format.json_schema[1].schema]])
  ELSE None

\* OllamaProvider._structured_output_instruction: the system message put
\* before the request's messages, or None; schema_str is "{}" when the
\* format has no json_schema, and the json_schema payload itself when that
\* has no schema property
structured_output_instruction(response_format) ==
  IF response_format.type = "json_object"
  THEN Some([role |-> "system", content |-> "single JSON object"])
  ELSE IF response_format.type = "json_schema"
  THEN LET schema_payload == IF Truthy(response_format.json_schema)
                             THEN response_format.json_schema[1] ELSE <<>>
           schema == IF Get(schema_payload, "schema", "") # ""
                     THEN schema_payload.schema ELSE "payload"
       IN  Some([role |-> "system",
                 content |-> IF schema_payload = <<>> THEN "{}" ELSE schema])
  ELSE None

\* whether _build_payload of the provider's adapter raises (ValueError): the
\* cloud adapter maps the response format, the local adapter only builds
\* the instruction message
BuildPayloadRaises(request) ==
  /\ request.provider = "openai"
  /\ request.response_format # None
  /\ map_response_format(request.response_format[1]) = None

\* whether the adapters post-process the content as structured output
WantsJson(request) ==
  request.response_format # None /\ request.response_format[1].type # "text"

(* ------------------------- provider adapters -------------------------- *)

\* one line of a streamed response body: its leading field marker, the rest
\* of the line, and what json.loads makes of the rest (None: it raises)
Line(prefix, body, parsed) == [prefix |-> prefix, body |-> body, parsed |-> parsed]

Text(line) == line.prefix \o line.body

\* a chat.completion.chunk envelope of the cloud backend
Envelope(model, choices, usage) == [model |-> model, choices |-> choices, usage |-> usage]
Choice(content, tool_calls, finish_reason) ==
  [delta |-> [content |-> content, tool_calls |-> tool_calls],
   finish_reason |-> finish_reason]

BackendUsage == [prompt_tokens |-> 3, completion_tokens |-> 4]
EarlyUsage == [prompt_tokens |-> 1, completion_tokens |-> 1]

\* the content of a message or delta as the backend's JSON carries it
Content(text) == Some(PyStr(text))

\* the texts the backends answer with
Hi == <<"h", "i">>
Braces == <<"{", "}">>

\* truth value of a content: None and the empty string are falsy
ContentTruthy(content) ==
  content # None /\ ~(content[1].type = "str" /\ content[1].value = <<>>)

\* the lines the cloud backend may send
OpenAILines ==
  { Line("", "", None),
    Line(":", " keep-alive", None),
    Line("event: ", "ping", None),
    Line("data: ", "[DONE]", None),
    Line("data: ", "{", None),
    Line("data: ", "json",
         Some(Envelope(None, <<Choice(Content(Hi), None, None)>>, None))),
    Line("data: ", "json",
         Some(Envelope(None, <<Choice(Content(Hi), None, None)>>, Some(EarlyUsage)))),
    Line("data: ", "json",
         Some(Envelope(None, <<Choice(None, None, Some("stop"))>>, None))),
    Line("data: ", "json",
         Some(Envelope(Some("GPT-4o"), <<Choice(None, None, Some("stop"))>>,
                       Some(BackendUsage)))),
    Line("data: ", "json", Some(Envelope(None, <<>>, Some(BackendUsage)))) }

\* an object of the local backend's stream
OllamaObject(content, done, eval_count, prompt_eval_count) ==
  [model |-> None, message |-> Some([content |-> content]), done |-> done,
   eval_count |-> eval_count, prompt_eval_count |-> prompt_eval_count]

\* the lines the local backend may send
OllamaLines ==
  { Line("", "", None),
    Line("", "{", None),
    Line("", "json", Some(OllamaObject(Content(Braces), Some(FALSE), None, None))),
    Line("", "json", Some(OllamaObject(Content(<<>>), Some(TRUE), Some(4), Some(3)))) }

\* what one turn of an adapter's line loop does: "continue", "break",
\* "raise", or "yield" a chunk and then stop or go on when resumed
Continue == [act |-> "continue", chunk |-> None, stop |-> FALSE]
Break == [act |-> "break", chunk |-> None, stop |-> TRUE]
Raise == [act |-> "raise", chunk |-> None, stop |-> TRUE]

ChatCompletionChunk(provider, model, delta, done, raw) ==
  [provider |-> provider, model |-> model, delta |-> delta, done |-> done, raw |-> raw]

\* the chunk the cloud adapter makes of an envelope with a first choice
OpenAIChunk(data, payload_model) ==
  LET choice == data.choices[1]
      content == choice.delta.content
      delta == IF content = None /\ choice.delta.tool_calls # None
               THEN choice.delta.tool_calls ELSE content
      is_done == choice.finish_reason # None
  IN  ChatCompletionChunk("openai",
                          IF data.model # None THEN data.model[1] ELSE payload_model,
                          delta, is_done, data)

\* the mutation of OpenAIYield that goes on reading after a terminal chunk
OpenAIYieldOn(data, payload_model) ==
  [act |-> "yield", chunk |-> Some(OpenAIChunk(data, payload_model)), stop |-> FALSE]

\* yield the chunk; "if is_done: break" when resumed
OpenAIYield(data, payload_model) ==
  LET chunk == OpenAIChunk(data, payload_model)
  IN  [act |-> "yield", chunk |-> Some(chunk), stop |-> chunk.done]

\* OpenAIProvider.create_completion_stream: one turn of the loop over
\* response.aiter_lines()
OpenAIStep(line, payload_model) ==
  IF Text(line) = "" THEN Continue
  ELSE IF line.prefix = ":" THEN Continue
  ELSE IF Text(line) = "data: [DONE]" THEN Break
  ELSE IF line.prefix # "data: " THEN Continue
  ELSE IF line.parsed = None THEN Raise
  ELSE IF line.parsed[1].choices = <<>> THEN Raise
  ELSE OpenAIYield(line.parsed[1], payload_model)

\* OllamaProvider.create_completion_stream: one turn of the loop over
\* response.aiter_lines()
OllamaStep(request, line, payload_model) ==
  IF Text(line) = "" THEN Continue
  ELSE IF line.parsed = None THEN Raise
  ELSE LET data == line.parsed[1]
           message == IF data.message # None THEN data.message[1] ELSE [content |-> None]
           delta == IF WantsJson(request) /\ ContentTruthy(message.content)
                    THEN Some(safe_json_loads(message.content[1]))
                    ELSE message.content
           done == IF data.done # None THEN data.done[1] ELSE FALSE
       IN  [act |-> "yield",
            chunk |-> Some(ChatCompletionChunk(
                         "ollama",
                         IF data.model # None THEN data.model[1] ELSE payload_model,
                         delta, done, data)),
            stop |-> done]

\* the adapter resolve_provider returned
AdapterStep(request, line, payload_model) ==
  IF request.provider = "openai" THEN OpenAIStep(line, payload_model)
  ELSE OllamaStep(request, line, payload_model)

BackendLines(provider) == IF provider = "openai" THEN OpenAILines ELSE OllamaLines

\* usage_from_chunk
usage_from_chunk(chunk) ==
  LET raw == chunk.raw IN
  IF chunk.provider = "openai" /\ raw.usage # None THEN raw.usage
  ELSE IF chunk.provider = "ollama" /\ raw.done = Some(TRUE)
  THEN Some([eval_count |-> IF raw.eval_count # None THEN raw.eval_count[1] ELSE 0,
             prompt_eval_count |->
               IF raw.prompt_eval_count # None THEN raw.prompt_eval_count[1] ELSE 0])
  ELSE None

\* the answers of the backends to a non-streaming request: kind "status" is
\* a non-success status, "fault" a transport error, "ok" a success with the
\* decoded body
PostAnswers(provider) ==
  IF provider = "openai"
  THEN { [kind |-> "status", data |-> None],
         [kind |-> "fault", data |-> None],
         [kind |-> "ok",
          data |-> Some([model |-> None,
                         choices |-> <<[message |-> [content |-> Content(Hi)]]>>,
                         usage |-> Some(BackendUsage)])] }
  ELSE { [kind |-> "status", data |-> None],
         [kind |-> "ok",
          data |-> Some([model |-> None, message |-> Some([content |-> Content(Braces)]),
                         eval_count |-> Some(4), prompt_eval_count |-> Some(3),
                         eval_duration |-> Some(5), total_duration |-> None])] }

\* OpenAIProvider.create_completion on a success answer
OpenAICompletion(request, data, payload_model) ==
  LET content == data.choices[1].message.content
  IN  [provider |-> "openai",
       model |-> IF data.model # None THEN data.model[1] ELSE payload_model,
       content |-> IF WantsJson(request) /\ JsonLoads(content[1].value) # None
                   THEN JsonLoads(content[1].value) ELSE content,
       usage |-> data.usage]

\* OllamaProvider.create_completion on a success answer
OllamaCompletion(request, data, payload_model) ==
  LET keys == {k \in {"eval_count", "eval_duration", "total_duration"} : data[k] # None}
      content == IF data.message # None THEN data.message[1].content ELSE None
  IN  [provider |-> "ollama",
       model |-> IF data.model # None THEN data.model[1] ELSE payload_model,
       content |-> IF WantsJson(request) /\ content # None
                   THEN Some(safe_json_loads(content[1])) ELSE content,
       usage |-> IF data.eval_count # None \/ data.eval_duration # None
                 THEN Some([k \in keys |-> data[k][1]])
                 ELSE None]

\* provider.create_completion
AdapterCompletion(request, data, payload_model) ==
  IF request.provider = "openai" THEN OpenAICompletion(request, data, payload_model)
  ELSE OllamaCompletion(request, data, payload_model)

(* ------------------------- completion handlers ------------------------ *)

\* a request handler before its request: path is "post", "sse" or "ws"; opc
\* is where the coroutine is suspended ("idle": not running); body is the
\* request as received; gen is the state of the adapter's stream generator
\* and is_done its local variable; chunks are the chunks the generator
\* yielded; sending is the message handed to the transport and sent the
\* messages the caller got; error is the exception class that ended the
\* request and outcome how it ended; netCalls and recCalls count the backend
\* requests opened and the calls of usage_tracker.record; suspended tells
\* whether its call of record was suspended on a full subscriber queue
NewHandler ==
  [path |-> "none", opc |-> "idle", body |-> None, request |-> None,
   prompt_chars |-> 0, payload_model |-> "", nlines |-> 0, gen |-> "none",
   is_done |-> FALSE, chunks |-> <<>>, pending_usage |-> None,
   sending |-> None, sent |-> <<>>, error |-> "none", outcome |-> "none",
   netCalls |-> 0, recCalls |-> 0, suspended |-> FALSE]

Message(type, chunk, detail) == [type |-> type, chunk |-> chunk, detail |-> detail]

\* the handler is over: its local variables are gone, the history stays
Finished(h, outcome) ==
  [h EXCEPT !.opc = "idle", !.sending = None, !.outcome = outcome,
            !.request = None, !.prompt_chars = 0, !.payload_model = "",
            !.nlines = 0, !.is_done = FALSE, !.pending_usage = None]

\* the response an HTTPStatusError carries: client.post has read its body,
\* client.stream has not (and has closed the response on the way out)
ErrorResponse(streamed) ==
  [content |-> IF streamed THEN None ELSE Some("{\"error\": \"denied\"}")]

\* extract_error_detail: Some(detail), or None when it raises.  It calls
\* exc.response.json() and catches ValueError only; for a response whose
\* content was never read httpx raises ResponseNotRead, a RuntimeError
extract_error_detail(response) ==
  IF response.content = None THEN None ELSE Some("denied")

\* the mutation of PostError that answers every exception with 500
PostErrorAlways500(h, exc) == Finished([h EXCEPT !.error = exc], "500")

\* an exception ends the handler of POST /chat/completions: HTTPException
\* with the backend's status for HTTPStatusError, with 500 otherwise
PostError(h, exc) ==
  Finished([h EXCEPT !.error = exc],
           IF exc = "HTTPStatusError" /\ extract_error_detail(ErrorResponse(FALSE)) # None
           THEN "upstream_status" ELSE "500")

\* the mutation of StreamError that opens the request once more after a
\* transport fault
StreamErrorRetry(h, exc) ==
  IF exc = "TransportError" /\ h.netCalls < 2
  THEN [h EXCEPT !.opc = "connect", !.netCalls = @ + 1]
  ELSE [h EXCEPT !.gen = "raised", !.error = exc, !.opc = "send",
                 !.sending = Some(Message("error", None, exc))]

\* an exception leaves the stream generator and reaches the except clauses
\* of event_stream or websocket_chat: an error indicator is sent, unless the
\* clause itself raises (extract_error_detail in the HTTPStatusError clause),
\* which takes the exception out of event_stream or websocket_chat
StreamError(h, exc) ==
  IF exc = "HTTPStatusError" /\ extract_error_detail(ErrorResponse(TRUE)) = None
  THEN Finished([h EXCEPT !.gen = "raised", !.error = exc], "raised")
  ELSE [h EXCEPT !.gen = "raised", !.error = exc, !.opc = "send",
                 !.sending = Some(Message("error", None, exc))]

\* the stream generator is exhausted: the async for loop is left, event_stream
\* returns and websocket_chat goes back to receive_json
StreamEnd(h) == Finished([h EXCEPT !.gen = "ended"], "complete")

\* create_completion_stream up to the request it opens: _build_payload,
\* which raises when the response format cannot be mapped, then (cloud
\* adapter) _resolve_api_details, which raises without an API key
StreamOpen(h, api_key) ==
  IF BuildPayloadRaises(h.request[1])
  THEN StreamError(h, "ValueError")
  ELSE IF h.request[1].provider = "openai" /\ api_key = None
  THEN StreamError(h, "RuntimeError")
  ELSE [h EXCEPT !.gen = "running", !.opc = "connect", !.netCalls = @ + 1,
                 !.payload_model = PayloadModel(h.request[1])]

\* the consumer asks for the next chunk: the generator goes on after its
\* yield, and breaks out of its loop after a terminal chunk
StreamResume(h) ==
  IF h.is_done THEN StreamEnd(h) ELSE [h EXCEPT !.opc = "read"]

\* after usage_tracker.record returned on the terminal chunk
AfterRecord(h) ==
  IF h.path = "post" THEN Finished(h, "200")
  ELSE IF h.path = "ws"
  THEN [h EXCEPT !.opc = "send", !.sending = Some(Message("done", None, ""))]
  ELSE StreamResume(h)

\* the mutation of RecordUsage that does not await the call of record
RecordUsageEarly(t, h, a) ==
  /\ RecordCall(t, a)
  /\ handler' = [handler EXCEPT ![t] =
       AfterRecord([h EXCEPT !.recCalls = @ + 1, !.suspended = pc'[t] # "idle"])]

\* "await usage_tracker.record(...)" of the handler in task t, then what
\* follows it when the call returns without suspending; a call that suspends
\* on a full subscriber queue leaves the handler inside record
RecordUsage(t, h, a) ==
  /\ RecordCall(t, a)
  /\ LET h1 == [h EXCEPT !.recCalls = @ + 1]
     IN  handler' = [handler EXCEPT ![t] =
           IF pc'[t] = "idle" THEN AfterRecord(h1)
           ELSE [h1 EXCEPT !.opc = "record", !.suspended = TRUE]]

\* the call of record of the handler in task t is resumed by a get() of the
\* subscriber it waits for; when the last put is done record returns and the
\* handler goes on to its next suspension
RecordReturns(t) ==
  /\ handler[t].opc = "record"
  /\ ResumePut(t)
  /\ handler' = [handler EXCEPT ![t] = IF pc'[t] = "idle" THEN AfterRecord(@) ELSE @]
  /\ UNCHANGED <<monVars, apiVars>>

\* task t has not served a request yet: each task serves one
CanStart(t) ==
  /\ handler[t].path = "none"
  /\ pc[t] = "idle"

\* POST /chat/completions, up to the backend request of create_completion.
\* The framework validates the body (422) before the handler runs.
CreateChatCompletion(t) ==
  /\ CanStart(t)
  /\ \E request_data \in RequestBodies, api_key \in ApiKeys :
       LET h == [NewHandler EXCEPT !.path = "post", !.body = Some(request_data)]
           request == ModelValidate(request_data)
       IN  handler' = [handler EXCEPT ![t] =
             IF request = None
             THEN Finished([h EXCEPT !.error = "ValidationError"], "422")
             ELSE IF ~resolve_provider(request[1].provider)
             THEN Finished([h EXCEPT !.error = "UnknownProvider"], "400")
             ELSE IF BuildPayloadRaises(request[1])
             THEN PostError([h EXCEPT !.request = request], "ValueError")
             ELSE IF request[1].provider = "openai" /\ api_key = None
             THEN PostError([h EXCEPT !.request = request], "RuntimeError")
             ELSE [h EXCEPT !.request = request, !.opc = "post_wait",
                            !.prompt_chars = count_prompt_chars(request[1]),
                            !.netCalls = @ + 1,
                            !.payload_model = PayloadModel(request[1])]]
  /\ UNCHANGED <<trackerVars, monVars, apiVars>>

\* the backend answers create_completion: the handler raises, or normalizes,
\* prices and records the usage and responds
PostAnswer(t) ==
  /\ handler[t].opc = "post_wait"
  /\ LET h == handler[t]
         provider == h.request[1].provider
     IN  \E answer \in PostAnswers(provider) :
           IF answer.kind = "ok"
           THEN LET result == AdapterCompletion(h.request[1], answer.data[1],
                                                h.payload_model)
                IN  RecordUsage(t, h, UsageRecord(result.provider, result.model,
                                                  result.usage, h.prompt_chars))
           ELSE /\ handler' = [handler EXCEPT ![t] =
                     PostError(h, IF answer.kind = "status" THEN "HTTPStatusError"
                                  ELSE "TransportError")]
                /\ UNCHANGED trackerVars
  /\ UNCHANGED <<monVars, apiVars>>

\* POST /chat/completions/stream: the handler, then the first step of
\* event_stream up to the backend request of create_completion_stream
StreamChatCompletion(t) ==
  /\ CanStart(t)
  /\ \E request_data \in StreamBodies, api_key \in ApiKeys :
       LET h == [NewHandler EXCEPT !.path = "sse", !.body = Some(request_data)]
           request == ModelValidate(request_data)
       IN  handler' = [handler EXCEPT ![t] =
             IF request = None
             THEN Finished([h EXCEPT !.error = "ValidationError"], "422")
             ELSE IF ~resolve_provider(request[1].provider)
             THEN Finished([h EXCEPT !.error = "UnknownProvider"], "400")
             ELSE StreamOpen([h EXCEPT !.request = request,
                                       !.prompt_chars = count_prompt_chars(request[1])],
                             api_key)]
  /\ UNCHANGED <<trackerVars, monVars, apiVars>>

\* websocket_chat: receive_json returned a chat action with a request body;
\* a ValidationError is answered with an error message; resolve_provider is
\* called outside any try, so its HTTPException leaves the handler
WebsocketChat(t) ==
  /\ CanStart(t)
  /\ \E request_data \in StreamBodies, api_key \in ApiKeys :
       LET h == [NewHandler EXCEPT !.path = "ws", !.body = Some(request_data)]
           request == ModelValidate(request_data)
       IN  handler' = [handler EXCEPT ![t] =
             IF request = None
             THEN [h EXCEPT !.error = "ValidationError", !.opc = "send",
                            !.sending = Some(Message("error", None, "ValidationError"))]
             ELSE IF ~resolve_provider(request[1].provider)
             THEN Finished([h EXCEPT !.error = "UnknownProvider"], "raised")
             ELSE StreamOpen([h EXCEPT !.request = request,
                                       !.prompt_chars = count_prompt_chars(request[1])],
                             api_key)]
  /\ UNCHANGED <<trackerVars, monVars, apiVars>>

\* the backend answers the streaming request: response.raise_for_status()
BackendStatus(t) ==
  /\ handler[t].opc = "connect"
  /\ \E answer \in {"ok", "status", "fault"} :
       handler' = [handler EXCEPT ![t] =
         IF answer = "ok" THEN [@ EXCEPT !.opc = "read"]
         ELSE StreamError(@, IF answer = "status" THEN "HTTPStatusError"
                             ELSE "TransportError")]
  /\ UNCHANGED <<trackerVars, monVars, apiVars>>

\* the mutation of TakeChunk that assigns pending_usage on every chunk
TakeChunkResets(h, step) ==
  LET chunk == step.chunk[1]
  IN  [h EXCEPT !.chunks = Append(@, chunk),
                !.is_done = step.stop,
                !.pending_usage = usage_from_chunk(chunk),
                !.opc = "send",
                !.sending = Some(Message("chunk", Some(chunk), ""))]

\* the handler takes the chunk the generator yielded: usage_from_chunk, then
\* the chunk is handed to the transport (yield / send_json)
TakeChunk(h, step) ==
  LET chunk == step.chunk[1]
      usage_candidate == usage_from_chunk(chunk)
  IN  [h EXCEPT !.chunks = Append(@, chunk),
                !.is_done = step.stop,
                !.pending_usage = IF Truthy(usage_candidate) THEN usage_candidate ELSE @,
                !.opc = "send",
                !.sending = Some(Message("chunk", Some(chunk), ""))]

\* the generator reads on: a line arrives, the body ends, or the read fails
AdapterRead(t) ==
  /\ handler[t].opc = "read"
  /\ LET h == handler[t] IN
       \/ /\ h.nlines < MaxLines
          /\ \E line \in BackendLines(h.request[1].provider) :
               LET step == AdapterStep(h.request[1], line, h.payload_model)
                   h1 == [h EXCEPT !.nlines = @ + 1]
               IN  handler' = [handler EXCEPT ![t] =
                     IF step.act = "continue" THEN h1
                     ELSE IF step.act = "break" THEN StreamEnd(h1)
                     ELSE IF step.act = "raise" THEN StreamError(h1, "ValueError")
                     ELSE TakeChunk(h1, step)]
       \/ \E end \in {"eof", "fault"} :
            handler' = [handler EXCEPT ![t] =
              IF end = "eof" THEN StreamEnd(h) ELSE StreamError(h, "TransportError")]
  /\ UNCHANGED <<trackerVars, monVars, apiVars>>

\* the transport took the message: the handler goes on to its next
\* suspension, recording the usage after a terminal chunk
Deliver(t) ==
  /\ handler[t].opc = "send"
  /\ LET msg == handler[t].sending[1]
         h == [handler[t] EXCEPT !.sent = Append(@, msg), !.sending = None]
     IN  IF msg.type = "chunk" /\ msg.chunk[1].done
         THEN RecordUsage(t, h, UsageRecord(msg.chunk[1].provider, msg.chunk[1].model,
                                            h.pending_usage, h.prompt_chars))
         ELSE /\ handler' = [handler EXCEPT ![t] =
                   IF msg.type = "error" THEN Finished(h, "error")
                   ELSE StreamResume(h)]
              /\ UNCHANGED trackerVars
  /\ UNCHANGED <<monVars, apiVars>>

\* the caller is gone: the SSE response is cancelled wherever event_stream
\* is suspended, which closes the generator; on the WebSocket send_json
\* raises, the loop is left and the handler returns
Disconnect(t) ==
  /\ \/ handler[t].path = "sse" /\ handler[t].opc \in {"connect", "read", "send"}
     \/ handler[t].path = "ws" /\ handler[t].opc = "send"
  /\ handler' = [handler EXCEPT ![t] =
       Finished([@ EXCEPT !.gen = IF @ = "running" THEN "closed" ELSE @],
                "disconnected")]
  /\ UNCHANGED <<trackerVars, monVars, apiVars>>

(* --------------------------- specification ---------------------------- *)

Init ==
  /\ lock = "free"
  /\ per_key = EmptyTable
  /\ listeners = <<>>
  /\ listener_id_seq = 0
  /\ last_broadcast = None
  /\ queues = [s \in Subs |-> <<>>]
  /\ putters = [s \in Subs |-> <<>>]
  /\ ready = <<>>
  /\ pc = [t \in Tasks |-> "idle"]
  /\ snap = [t \in Tasks |-> None]
  /\ rest = [t \in Tasks |-> <<>>]
  /\ returned = None
  /\ spc = [s \in Subs |-> "new"]
  /\ lid = [s \in Subs |-> -1]
  /\ dequeued = [s \in Subs |-> <<>>]
  /\ calls = <<>>
  /\ history = <<>>
  /\ regAt = [s \in Subs |-> 0]
  /\ handler = [t \in Tasks |-> NewHandler]
  /\ call = [op |-> "none"]

Next ==
  \/ \E t \in Tasks : Record(t)
  \/ \E t \in Tasks : RecordResume(t)
  \/ \E s \in Subs : MonConnect(s)
  \/ \E s \in Subs : MonGet(s)
  \/ \E s \in Subs : MonSendOk(s)
  \/ \E s \in Subs : MonSendFail(s)

Spec == Init /\ [][Next]_vars

\* The event loop runs every scheduled task, a connected monitoring handler
\* whose queue holds an item takes it, and a client that stays connected
\* lets send_json return.  Requests and disconnections come when they come.
Fairness ==
  /\ \A t \in Tasks : WF_vars(RecordResume(t))
  /\ \A s \in Subs : WF_vars(MonGet(s)) /\ WF_vars(MonSendOk(s))

FairSpec == Spec /\ Fairness

(* the completion paths over the tracker: requests, backends and callers *)
OrchNext ==
  \/ \E t \in Tasks : CreateChatCompletion(t)
  \/ \E t \in Tasks : PostAnswer(t)
  \/ \E t \in Tasks : StreamChatCompletion(t)
  \/ \E t \in Tasks : WebsocketChat(t)
  \/ \E t \in Tasks : BackendStatus(t)
  \/ \E t \in Tasks : AdapterRead(t)
  \/ \E t \in Tasks : Deliver(t)
  \/ \E t \in Tasks : Disconnect(t)

OrchSpec == Init /\ [][OrchNext]_vars

(* streams of chunks with a monitoring subscriber that takes its snapshots
   when it pleases, so that a call of record may be suspended on the full
   queue: the requests ask for no response format, the
   backend answers, and every line read from it ends in a message for
   the caller (a chunk, or the error indicator for a line that does not
   parse) *)
StreamStarts(t) ==
  /\ StreamChatCompletion(t) \/ WebsocketChat(t)
  /\ handler'[t].opc = "connect"
  /\ handler'[t].body[1].response_format = None

StreamAnswered(t) ==
  /\ BackendStatus(t)
  /\ handler'[t].opc = "read"

StreamYields(t) ==
  /\ AdapterRead(t)
  /\ handler'[t].opc = "send"

\* the monitoring connection of these runs
Monitor == CHOOSE s \in Subs : TRUE

FinalizeNext ==
  \/ \E t \in Tasks : StreamStarts(t)
  \/ \E t \in Tasks : StreamAnswered(t)
  \/ \E t \in Tasks : StreamYields(t)
  \/ \E t \in Tasks : Deliver(t)
  \/ \E t \in Tasks : RecordReturns(t)
  \/ MonConnect(Monitor)
  \/ MonGet(Monitor)
  \/ MonSendOk(Monitor)

FinalizeSpec == Init /\ [][FinalizeNext]_vars

(* ---------------------- direct calls of the tracker ------------------- *)

\* the ids unregister is called with: issued ones and one never issued
ListenerIds == 0..Cardinality(Subs)

\* whether self._listeners.pop(listener_id, None) finds the key
DictHas(d, id) == \E i \in 1..Len(d) : d[i].id = id

\* whether self._listeners.pop(listener_id, None) raises: with a default
\* given, a missing key is no KeyError
PopRaises(d, id) == FALSE

\* await usage_tracker.record(...), up to its return or its suspension
ApiRecord(t) ==
  /\ pc[t] = "idle"
  /\ Len(calls) < MaxRecords
  /\ \E a \in RecordArgs : RecordCall(t, a)
  /\ call' = [op |-> "record"]
  /\ UNCHANGED <<monVars, orchVars>>

\* await usage_tracker.register(), with a new queue s
ApiRegister(s) ==
  /\ spc[s] = "new"
  /\ RegisterCall(s)
  /\ spc' = [spc EXCEPT ![s] = "get"]
  /\ regAt' = [regAt EXCEPT ![s] = Len(history)]
  /\ call' = [op |-> "register", id |-> listener_id_seq]
  /\ UNCHANGED <<putters, ready, pc, snap, rest, returned, calls, history, dequeued,
                 orchVars>>

\* await usage_tracker.unregister(id), with any id
ApiUnregister(id) ==
  /\ UnregisterCall(id)
  /\ call' = [op |-> "unregister", id |-> id, found |-> DictHas(listeners, id),
              raised |-> PopRaises(listeners, id)]
  /\ UNCHANGED <<queues, putters, ready, pc, snap, rest, returned, calls, history,
                 monVars, orchVars>>

\* await usage_tracker.current()
ApiCurrent ==
  /\ lock = "free"
  /\ call' = [op |-> "current", result |-> CurrentSnapshot]
  /\ UNCHANGED <<trackerVars, monVars, orchVars>>

ApiNext ==
  \/ \E t \in Tasks : ApiRecord(t)
  \/ \E s \in Subs : ApiRegister(s)
  \/ \E id \in ListenerIds : ApiUnregister(id)
  \/ ApiCurrent

ApiSpec == Init /\ [][ApiNext]_vars

(* ------------------- direct calls of the pure functions --------------- *)

RECURSIVE TextsOfLen(_)
TextsOfLen(n) ==
  IF n = 0 THEN {<<>>}
  ELSE {Append(text, c) : text \in TextsOfLen(n - 1), c \in Chars}

Texts == UNION {TextsOfLen(n) : n \in 0..MaxText}

\* the model names given to the pricing: the keys of the table, a key in
\* another case, a name the table does not have, the local default
PricedModels ==
  {"gpt-4o-mini", "gpt-4o", "gpt-4.1", "GPT-4o", "o9-preview", default_ollama_model}

\* the usage values given to the pricing
PricedUsages ==
  { None, Some(<<>>),
    Some([prompt_tokens |-> 1000, completion_tokens |-> 1000]),
    Some([prompt_tokens |-> 3, completion_tokens |-> 4]),
    Some([prompt_tokens |-> 1000]),
    Some([completion_tokens |-> 0, prompt_tokens |-> 0]),
    Some([eval_count |-> 4]) }

\* OllamaProvider._extract_json_chunk(text)
FunExtract ==
  /\ \E text \in Texts :
       call' = [op |-> "extract_json_chunk", text |-> text,
                result |-> extract_json_chunk(text)]
  /\ UNCHANGED <<trackerVars, monVars, orchVars>>

\* OllamaProvider._safe_json_loads(candidate), with a str, a dict and an int
FunSafeLoads ==
  /\ \E candidate \in {PyStr(text) : text \in Texts}
                        \cup {PyDict(<<>>), PyInt(<<"1">>)} :
       call' = [op |-> "safe_json_loads", candidate |-> candidate,
                result |-> safe_json_loads(candidate)]
  /\ UNCHANGED <<trackerVars, monVars, orchVars>>

\* estimate_cost_usd(provider, model, usage)
FunCost ==
  /\ \E provider \in PROVIDERS, model \in PricedModels, usage \in PricedUsages :
       call' = [op |-> "estimate_cost_usd", provider |-> provider,
                model |-> model, usage |-> usage,
                result |-> estimate_cost_usd(provider, model, usage)]
  /\ UNCHANGED <<trackerVars, monVars, orchVars>>

FunNext == FunExtract \/ FunSafeLoads \/ FunCost

FunSpec == Init /\ [][FunNext]_vars

(* ------------------ one stream over a whole response body ------------- *)

\* the response bodies of the backend: the lines it sends if it is read to
\* the end, one more than a stream reads
RECURSIVE BodiesOfLen(_, _)
BodiesOfLen(provider, n) ==
  IF n = 0 THEN {<<>>}
  ELSE {Append(body, line) : body \in BodiesOfLen(provider, n - 1),
                             line \in BackendLines(provider)}

Bodies(provider) == UNION {BodiesOfLen(provider, n) : n \in 0..(MaxLines + 1)}

\* the request of the stream: no model, no response format
SessionRequest(provider) == ModelValidate(
  [provider |-> Some(provider), model |-> None, messages |-> <<"hi">>,
   response_format |-> None])[1]

\* event_stream over the lines of the body with a caller that takes every
\* message: the adapter's loop over aiter_lines(), the handler's loop over
\* the chunks, up to the call of record or the end of the stream.  The
\* result is the handler and the arguments of its call of record, if any.
RECURSIVE StreamOver(_, _)
StreamOver(h, lines) ==
  IF lines = <<>> THEN [handler |-> StreamEnd(h), record |-> None]
  ELSE LET step == AdapterStep(h.request[1], Head(lines), h.payload_model)
       IN  IF step.act = "continue" THEN StreamOver(h, Tail(lines))
           ELSE IF step.act = "break" THEN [handler |-> StreamEnd(h), record |-> None]
           ELSE IF step.act = "raise"
           THEN LET e == StreamError(h, "ValueError")
                IN  [handler |-> Finished([e EXCEPT !.sent = Append(@, e.sending[1])],
                                          "error"),
                     record |-> None]
           ELSE LET taken == TakeChunk(h, step)
                    chunk == step.chunk[1]
                    h1 == [taken EXCEPT !.sent = Append(@, taken.sending[1]),
                                        !.sending = None]
                IN  IF chunk.done
                    THEN [handler |-> AfterRecord([h1 EXCEPT !.recCalls = @ + 1]),
                          record |-> Some(UsageRecord(chunk.provider, chunk.model,
                                                      h1.pending_usage, h1.prompt_chars))]
                    ELSE StreamOver(h1, Tail(lines))

\* POST /chat/completions/stream answered with the body, in task t
StreamSession(t) ==
  /\ call.op = "none"
  /\ CanStart(t)
  /\ \E provider \in PROVIDERS :
       \E body \in Bodies(provider) :
         LET request == SessionRequest(provider)
             h == [NewHandler EXCEPT
                     !.path = "sse", !.request = Some(request),
                     !.prompt_chars = count_prompt_chars(request),
                     !.payload_model = PayloadModel(request),
                     !.gen = "running", !.opc = "read", !.netCalls = 1]
             run == StreamOver(h, body)
         IN  /\ call' = [op |-> "stream", provider |-> provider, body |-> body]
             /\ handler' = [handler EXCEPT ![t] = run.handler]
             /\ IF run.record = None THEN UNCHANGED trackerVars
                ELSE RecordCall(t, run.record[1])
  /\ UNCHANGED monVars

SessionNext == \E t \in Tasks : StreamSession(t)

SessionSpec == Init /\ [][SessionNext]_vars

(* ------------------------------ claims -------------------------------- *)

\* what a connection has seen and will see: dequeued, then still queued
Stream(s) == dequeued[s] \o queues[s]

\* x is the full table `table`, with its totals
IsSnapshotOf(x, table) ==
  /\ x.per_model = table
  /\ \A f \in TotalFields : x.totals[f] = SumField(table, DOMAIN table, f)

\* the tables that existed: the empty one, and one per critical section
TableAt(n) == IF n = 0 THEN EmptyTable ELSE history[n]

CallsOf(key) == SelectSeq(calls, LAMBDA a : KeyOf(a.provider, a.model) = key)

RECURSIVE SumUsage(_, _)
SumUsage(cs, f) ==
  IF cs = <<>> THEN 0
  ELSE (IF Head(cs).usage = None THEN 0 ELSE Get(Head(cs).usage[1], f, 0))
       + SumUsage(Tail(cs), f)

\* C1: no lost updates.  Whatever the interleaving of the record() calls,
\* the table holds, for every key, as many requests as record() calls were
\* made for the key, and prompt_tokens / completion_tokens equal to the sums
\* of the usage values those calls passed.
C1_NoLostUpdates ==
  /\ DOMAIN per_key = {KeyOf(calls[i].provider, calls[i].model) : i \in 1..Len(calls)}
  /\ \A key \in DOMAIN per_key :
       /\ per_key[key].requests = Len(CallsOf(key))
       /\ per_key[key].prompt_tokens = SumUsage(CallsOf(key), "prompt_tokens")
       /\ per_key[key].completion_tokens = SumUsage(CallsOf(key), "completion_tokens")

\* two calls for one key and a call for another key have passed the critical
\* section, and both tasks are still inside record()
C1_Witness ==
  /\ \A t \in Tasks : pc[t] = "put_wait"
  /\ \E key \in DOMAIN per_key : per_key[key].requests >= 2
  /\ Cardinality(DOMAIN per_key) >= 2

\* C2: a full subscriber channel never blocks the producer: every record()
\* call eventually returns, even when a subscriber's channel is at capacity
\* and the subscriber never consumes again or has disconnected.
C2_RecordReturns == \A t \in Tasks : (pc[t] # "idle") ~> (pc[t] = "idle")

\* C3: one slow subscriber never stalls the publish path: while record() is
\* held up by the full channel of subscriber A, its snapshot has been
\* enqueued on every other registered subscriber B whose channel has room.
C3_NoHeadOfLineBlocking ==
  \A t \in Tasks :
    pc[t] = "put_wait" =>
      \A i \in 2..Len(rest[t]) :
        (\E j \in 1..Len(listeners) : listeners[j].queue = rest[t][i])
          => Full(queues[rest[t][i]])

\* C4: per-subscriber ordering: the snapshots a subscriber dequeues, and
\* those waiting on its channel, are in the order of the critical sections:
\* none is older (smaller totals.requests) than one before it.
C4_Ordered ==
  \A s \in Subs :
    \A i, j \in 1..Len(Stream(s)) :
      i < j => Stream(s)[i].totals.requests <= Stream(s)[j].totals.requests

\* the snapshots that are held anywhere: queued, dequeued, local to a
\* record() in progress, returned by record(), kept as _last_broadcast
HeldSnapshots ==
  UNION {{Stream(s)[i] : i \in 1..Len(Stream(s))} : s \in Subs}
  \cup UNION {{snap[t][i] : i \in 1..Len(snap[t])} : t \in Tasks}
  \cup {returned[i] : i \in 1..Len(returned)}
  \cup {last_broadcast[i] : i \in 1..Len(last_broadcast)}
  \cup {CurrentSnapshot}

IsPrefix(p, q) == Len(p) <= Len(q) /\ SubSeq(q, 1, Len(p)) = p

\* a channel only loses its head and gains at its tail
Shifted(q, r) ==
  \E k \in 0..Len(q) : IsPrefix(SubSeq(q, k + 1, Len(q)), r)

C5_Existed ==
  \A x \in HeldSnapshots : \E n \in 0..Len(history) : IsSnapshotOf(x, TableAt(n))

C5_Kept ==
  \A s \in Subs :
    /\ IsPrefix(dequeued[s], dequeued'[s])
    /\ Shifted(queues[s], queues'[s])

\* C5: every snapshot a subscriber dequeues, and every snapshot record() or
\* current() returns, is the full usage table as it stood right after some
\* record() call's critical section (or the empty table), and a snapshot
\* handed out is not changed by later record() calls.
C5_SnapshotsExisted == []C5_Existed /\ [][C5_Kept]_vars

\* a subscriber has dequeued the snapshot of the second record() while a
\* third record() has changed the table since
C5_Witness ==
  \E s \in Subs :
    /\ Len(history) >= 3
    /\ \E i \in 1..Len(dequeued[s]) : IsSnapshotOf(dequeued[s][i], history[2])
    /\ history[3] # history[2]

\* C6: register seeding: the first item on the channel register() returns
\* is the snapshot of the table at registration, reflecting every record()
\* serialized before it.
C6_RegisterSeeds ==
  \A s \in Subs :
    spc[s] # "new" =>
      /\ Stream(s) # <<>>
      /\ IsSnapshotOf(Stream(s)[1], TableAt(regAt[s]))

\* a connection registered after two record() calls has dequeued its seed
C6_Witness ==
  \E s \in Subs :
    /\ regAt[s] >= 2
    /\ dequeued[s] # <<>>
    /\ dequeued[s][1].totals.requests = 2

\* the n-th record() was serialized while connection s was registered
PublishedTo(s, n) ==
  /\ spc[s] \in {"get", "send"}
  /\ regAt[s] < n
  /\ n <= Len(history)

\* connection s has dequeued the snapshot of the n-th record() k times
TimesDequeued(s, n) ==
  Cardinality({i \in 1..Len(dequeued[s]) : dequeued[s][i].totals.requests = n})

\* C7: monitoring delivery: a connected subscriber receives one seed and then
\* exactly one snapshot for each record() serialized after its registration:
\* none is delivered twice, and none is missed while it stays connected.
C7_MonitoringDelivery ==
  /\ [](\A s \in Subs : \A n \in 0..MaxRecords : TimesDequeued(s, n) <= 1)
  /\ \A s \in Subs : \A n \in 1..MaxRecords :
       PublishedTo(s, n) ~> (spc[s] = "closed" \/ TimesDequeued(s, n) = 1)

\* C8: stream termination: whenever create_completion_stream of either
\* adapter ends without raising, exactly one of the chunks it produced has
\* done=true, and that chunk is the last one - whatever lines the backend
\* sent, and also when the body ends or "data: [DONE]" arrives first.
C8_OneTerminalChunk ==
  \A t \in Tasks :
    handler[t].gen = "ended" =>
      LET chunks == handler[t].chunks
      IN  /\ chunks # <<>>
          /\ chunks[Len(chunks)].done
          /\ \A i \in 1..(Len(chunks) - 1) : ~chunks[i].done

\* the caller got the terminal chunk of the stream
TerminalRelayed(h) ==
  \E i \in 1..Len(h.sent) : h.sent[i].type = "chunk" /\ h.sent[i].chunk[1].done

RECURSIVE RecCallsOf(_)
RecCallsOf(ts) ==
  IF ts = {} THEN 0
  ELSE LET t == CHOOSE x \in ts : TRUE
       IN  handler[t].recCalls + RecCallsOf(ts \ {t})

\* C9: usage is recorded exactly once per completed stream and never for an
\* abandoned one: an SSE or WebSocket request has called record once if its
\* terminal chunk was relayed to the caller and not at all otherwise (the
\* caller left, or the stream failed or ended, before a terminal chunk), and
\* the tracker has serialized exactly the calls the handlers made.
C9_RecordedOncePerCompletedStream ==
  /\ \A t \in Tasks :
       handler[t].path \in {"sse", "ws"} =>
         handler[t].recCalls = IF TerminalRelayed(handler[t]) THEN 1 ELSE 0
  /\ Len(calls) = RecCallsOf(Tasks)

\* an SSE stream completed and was recorded once, while a WebSocket caller
\* left after a first chunk and nothing was recorded for it
C9_Witness ==
  \E t1, t2 \in Tasks :
    /\ handler[t1].path = "sse" /\ handler[t1].outcome = "complete"
    /\ Len(handler[t1].chunks) >= 2 /\ handler[t1].recCalls = 1
    /\ handler[t2].path = "ws" /\ handler[t2].outcome = "disconnected"
    /\ handler[t2].sent # <<>> /\ handler[t2].recCalls = 0

\* the request named a provider that is not one of the two recognized ones
Unrecognized(h) ==
  /\ h.body # None
  /\ h.body[1].provider # None
  /\ h.body[1].provider[1] \notin {"openai", "ollama"}

\* the request ended, or is ending, with a client-input error: status 422 or
\* 400 on the HTTP paths, the validation error message on the WebSocket
ClientInputError(h) ==
  \/ h.path \in {"post", "sse"} /\ h.outcome \in {"422", "400"}
  \/ /\ h.path = "ws"
     /\ h.error = "ValidationError"
     /\ \/ h.sending = Some(Message("error", None, "ValidationError"))
        \/ h.sent = <<Message("error", None, "ValidationError")>>
        \/ h.outcome = "disconnected" /\ h.sent = <<>>

C10_Rejected ==
  \A t \in Tasks :
    Unrecognized(handler[t]) =>
      /\ ClientInputError(handler[t])
      /\ handler[t].netCalls = 0
      /\ handler[t].recCalls = 0

C10_TableKept ==
  \A t \in Tasks :
    (Unrecognized(handler'[t]) /\ handler'[t] # handler[t]) =>
      /\ per_key' = per_key
      /\ last_broadcast' = last_broadcast
      /\ calls' = calls

\* C10: a request whose provider is not one of the two recognized values
\* fails with a client-input error, opens no backend request and records no
\* usage - no step of its handler changes the usage table or the last
\* snapshot - on the non-streaming, the SSE and the WebSocket path.
C10_UnknownProviderRejected == []C10_Rejected /\ [][C10_TableKept]_vars

\* after another request was recorded, a WebSocket request naming an unknown
\* provider got its error message
C10_Witness ==
  \E t1, t2 \in Tasks :
    /\ Unrecognized(handler[t1]) /\ handler[t1].path = "ws"
    /\ handler[t1].sent # <<>>
    /\ handler[t2].recCalls = 1
    /\ DOMAIN per_key # {}

\* the totals of the usage table
Totals(table) == BuildSnapshot(table).totals

\* the handler of POST /chat/completions in task t gets a success answer
\* and records it in this step
PostSucceeds(t) ==
  /\ handler[t].opc = "post_wait"
  /\ handler'[t].recCalls = handler[t].recCalls + 1

C11_RoundTrip ==
  \A t \in Tasks :
    PostSucceeds(t) =>
      \E answer \in PostAnswers(handler[t].request[1].provider) :
        /\ answer.kind = "ok"
        /\ LET result == AdapterCompletion(handler[t].request[1],
                                           answer.data[1], handler[t].payload_model)
               usage == normalize_usage(result.provider, result.usage)
               cost == estimate_cost_usd(result.provider, result.model, usage)
           IN  /\ Totals(per_key').requests = Totals(per_key).requests + 1
               /\ Totals(per_key').cost_usd = Totals(per_key).cost_usd + cost
               /\ last_broadcast'[1].totals = Totals(per_key')

C11_Monotonic ==
  /\ Totals(per_key').requests >= Totals(per_key).requests
  /\ Totals(per_key').cost_usd >= Totals(per_key).cost_usd

\* C11: non-streaming round trip: each successful non-streaming completion
\* increases totals.requests by exactly 1 and totals.cost_usd by exactly the
\* cost the pricing function gives for the response's provider, model and
\* normalized usage; totals.requests and totals.cost_usd never decrease and
\* cost_usd is never negative.
C11_NonStreamingRoundTrip ==
  /\ [][C11_RoundTrip]_vars
  /\ [][C11_Monotonic]_vars
  /\ [](Totals(per_key).cost_usd >= 0)

\* two non-streaming completions succeeded, the second on top of the
\* first one's totals, and a cost was charged
C11_Witness ==
  /\ \A t \in Tasks : handler[t].path = "post" /\ handler[t].outcome = "200"
  /\ Totals(per_key).requests = 2
  /\ Totals(per_key).cost_usd > 0

\* the error indicators among the messages the caller got
ErrorsSent(h) == {i \in 1..Len(h.sent) : h.sent[i].type = "error"}

\* C12: a failure while streaming (configuration error before the request,
\* non-success backend status, fault mid-stream) reaches the caller as
\* exactly one terminal error indicator on the channel it was consuming: the
\* failure is not raised through the transport, at most one indicator is
\* sent and nothing after it, and a caller that stays connected has got it
\* when the handler is done.
C12_FailureDelivered ==
  \A t \in Tasks :
    (handler[t].path \in {"sse", "ws"} /\ handler[t].gen = "raised") =>
      /\ handler[t].outcome # "raised"
      /\ Cardinality(ErrorsSent(handler[t])) <= 1
      /\ ErrorsSent(handler[t]) \subseteq {Len(handler[t].sent)}
      /\ (handler[t].opc = "idle" /\ handler[t].outcome # "disconnected")
           => ErrorsSent(handler[t]) # {}

\* the registry without the entry of id, the other entries in their order
Without(d, id) == SelectSeq(d, LAMBDA e : e.id # id)

C13_Step ==
  call'.op = "unregister" =>
    /\ ~call'.raised
    /\ listeners' = Without(listeners, call'.id)
    /\ Len(listeners') >= Len(listeners) - 1
    /\ ~DictHas(listeners, call'.id) => listeners' = listeners
    /\ queues' = queues
    /\ putters' = putters
    /\ per_key' = per_key
    /\ last_broadcast' = last_broadcast
    /\ listener_id_seq' = listener_id_seq

\* C13: unregister(id) removes exactly the channel registered under id and
\* is a no-op otherwise: a second call, or a call with an id never issued,
\* raises nothing and leaves the registry, the other subscribers' channels,
\* the usage table and the last snapshot unchanged.
C13_UnregisterIdempotent == [][C13_Step]_vars

\* unregister was called again with an id that was issued and is already
\* removed, while another subscriber is registered and usage was recorded
C13_Witness ==
  /\ call.op = "unregister"
  /\ ~call.found
  /\ call.id < listener_id_seq
  /\ Len(listeners) = 1
  /\ last_broadcast # None

\* the request of the handler asks for json_schema output and has no schema
NoSchemaRequest(h) ==
  h.body # None /\ h.body[1].response_format = Some(NoSchemaFormat)

\* C14: a request with response_format json_schema and no usable schema is
\* rejected before any backend request is opened and records no usage, with
\* either adapter, streaming or not.
C14_MalformedSchemaRejected ==
  \A t \in Tasks :
    NoSchemaRequest(handler[t]) =>
      /\ handler[t].netCalls = 0
      /\ handler[t].recCalls = 0

\* C15: current() returns the snapshot of the most recent record call, whose
\* totals are the sums over the table after all record calls so far, and an
\* all-zero snapshot without entries when nothing was recorded.
C15_Result ==
  call.op = "current" =>
    /\ IsSnapshotOf(call.result, TableAt(Len(history)))
    /\ IsSnapshotOf(call.result, per_key)
    /\ call.result.totals.requests = Len(history)
    /\ history = <<>> =>
         /\ call.result.per_model = EmptyTable
         /\ \A f \in TotalFields : call.result.totals[f] = 0

\* C15: a call of current() changes neither the table, nor the registry, nor
\* a subscriber's queue, nor the last snapshot.
C15_Step ==
  call'.op = "current" =>
    UNCHANGED <<per_key, listeners, listener_id_seq, queues, putters, last_broadcast>>

C15_CurrentReturnsLatest == [](C15_Result) /\ [][C15_Step]_vars

C15_Witness ==
  /\ call.op = "current"
  /\ Len(history) >= 2
  /\ Cardinality(DOMAIN per_key) = 2
  /\ call.result.totals.requests = Len(history)
  /\ listeners # <<>>

\* C16: in every snapshot built (queued for or taken by a subscriber, held by
\* a record call, kept as the last one, or returned by current()), each field
\* of totals is the sum of that field over the snapshot's per_model entries.
C16_TotalsAreSums ==
  \A x \in HeldSnapshots \cup (IF call.op = "current" THEN {call.result} ELSE {}) :
    \A f \in TotalFields :
      x.totals[f] = SumField(x.per_model, DOMAIN x.per_model, f)

C16_Witness ==
  \E x \in HeldSnapshots :
    /\ Cardinality(DOMAIN x.per_model) = 2
    /\ x.totals.requests = 3
    /\ x.totals.cost_usd > 0
    /\ \E s \in Subs : \E i \in 1..Len(queues[s]) : queues[s][i] = x

\* neither json.loads of the text nor json.loads of its "{...}" region succeeds
NoParse(text) ==
  /\ JsonLoads(text) = None
  /\ BraceRegion(text) = None \/ JsonLoads(BraceRegion(text)[1]) = None

\* C17: the extraction returns a value for every text; when neither the
\* direct parse nor the parse of the "{...}" region succeeds the value is the
\* input text itself, character for character, leading and trailing
\* whitespace included; when one of them succeeds it is the parsed value.
C17_ExtractionKeepsText ==
  call.op = "extract_json_chunk" =>
    /\ call.result.type \in {"str", "int", "dict"}
    /\ NoParse(call.text) => call.result = PyStr(call.text)
    /\ JsonLoads(call.text) # None => call.result = JsonLoads(call.text)[1]
    /\ (JsonLoads(call.text) = None /\ ~NoParse(call.text)) =>
         call.result = JsonLoads(BraceRegion(call.text)[1])[1]

\* the cost of a usage at a price, in units of 1e-10 USD
PricedAt(pricing, usage) ==
  Get(usage, "prompt_tokens", 0) * pricing.input
  + Get(usage, "completion_tokens", 0) * pricing.output

\* the parts of C18 that do not depend on what "in the pricing table" means:
\* zero for the local provider, zero without usage, the formula for a key of
\* the table, and 0.00075 USD for gpt-4o-mini with 1000 + 1000 tokens
C18_Common ==
  call.op = "estimate_cost_usd" =>
    /\ call.result >= 0
    /\ call.provider = "ollama" => call.result = 0
    /\ ~Truthy(call.usage) => call.result = 0
    /\ (call.provider = "openai" /\ Truthy(call.usage)
        /\ call.model \in DOMAIN OPENAI_PRICING) =>
         call.result = PricedAt(OPENAI_PRICING[call.model], call.usage[1])
    /\ (call.provider = "openai" /\ call.model = "gpt-4o-mini"
        /\ call.usage = Some([prompt_tokens |-> 1000, completion_tokens |-> 1000])) =>
         call.result = 7500000

\* C18, as stated: pricing degrades to zero; in particular the cost is exactly
\* 0 for any cloud model that is not a key of the pricing table.
C18_ZeroOutsideTable ==
  /\ C18_Common
  /\ (call.op = "estimate_cost_usd" /\ call.model \notin DOMAIN OPENAI_PRICING) =>
       call.result = 0

\* C18, amended: the cost is exactly 0 for the local provider, without usage,
\* and for a cloud model of which neither the name nor its lower-case form is
\* a key of the pricing table; a name whose lower-case form is a key is
\* priced at that key's prices by the same formula.
C18_PricingDegradesToZero ==
  /\ C18_Common
  /\ (call.op = "estimate_cost_usd"
      /\ call.model \notin DOMAIN OPENAI_PRICING
      /\ Lower(call.model) \notin DOMAIN OPENAI_PRICING) =>
       call.result = 0
  /\ (call.op = "estimate_cost_usd"
      /\ call.provider = "openai" /\ Truthy(call.usage)
      /\ call.model \notin DOMAIN OPENAI_PRICING
      /\ Lower(call.model) \in DOMAIN OPENAI_PRICING) =>
       call.result = PricedAt(OPENAI_PRICING[Lower(call.model)], call.usage[1])

C18_Witness ==
  /\ call.op = "estimate_cost_usd"
  /\ call.provider = "openai"
  /\ call.model = "GPT-4o"
  /\ call.usage = Some([prompt_tokens |-> 1000, completion_tokens |-> 1000])
  /\ call.result = 125000000

\* the caller of the handler got a done=true chunk
GotTerminal(h) ==
  \E i \in 1..Len(h.sent) : h.sent[i].type = "chunk" /\ h.sent[i].chunk[1].done

\* completion is signalled: the {type: done} message is handed to the
\* WebSocket or was sent, or the event stream ended
DoneSignalled(h) ==
  \/ h.sending # None /\ h.sending[1].type = "done"
  \/ \E i \in 1..Len(h.sent) : h.sent[i].type = "done"
  \/ h.path = "sse" /\ h.outcome = "complete"

\* C19: after the terminal chunk of a stream, completion is signalled to the
\* caller only when record was called and has returned: while the call of
\* record is suspended the {type: done} message is not sent and the event
\* stream has not ended.
C19_FinalizedBeforeDone ==
  \A t \in Tasks :
    LET h == handler[t] IN
      /\ pc[t] # "idle" =>
           /\ h.opc = "record" /\ GotTerminal(h)
           /\ ~DoneSignalled(h)
      /\ (GotTerminal(h) /\ DoneSignalled(h)) =>
           /\ h.recCalls = 1
           /\ pc[t] = "idle"
           /\ \E i \in 1..Len(calls) : calls[i].prompt_chars = Some(2)
      /\ (h.path = "ws" /\ DoneSignalled(h)) => GotTerminal(h)

C19_Witness ==
  /\ \E t \in Tasks :
       /\ handler[t].path = "ws"
       /\ handler[t].suspended
       /\ \E i \in 1..Len(handler[t].sent) : handler[t].sent[i].type = "done"
  /\ \E t \in Tasks :
       /\ handler[t].path = "sse"
       /\ GotTerminal(handler[t])
       /\ handler[t].outcome = "complete"

\* the usage payload of the last of the chunks that carries one
RECURSIVE LastCandidate(_)
LastCandidate(chunks) ==
  IF chunks = <<>> THEN None
  ELSE LET last == chunks[Len(chunks)]
       IN  IF Truthy(usage_from_chunk(last)) THEN usage_from_chunk(last)
           ELSE LastCandidate(SubSeq(chunks, 1, Len(chunks) - 1))

Streaming(h) == h.path \in {"sse", "ws"}

\* C20: while a stream runs its usage candidate is the payload of the most
\* recent chunk that carried one (none before the first), and nothing is
\* recorded for the stream before its terminal chunk.
C20_Candidate ==
  \A t \in Tasks :
    LET h == handler[t] IN
      Streaming(h) =>
        /\ h.opc \in {"read", "send", "record"} =>
             h.pending_usage = LastCandidate(h.chunks)
        /\ h.chunks = <<>> => h.pending_usage = None
        /\ (\A i \in 1..Len(h.chunks) : ~h.chunks[i].done) => h.recCalls = 0

\* C20: the call of record a stream makes is made on its terminal chunk and
\* passes the normalization of the most recently observed candidate (absent
\* usage when no chunk carried one).
C20_Commit ==
  \A t \in Tasks :
    (Streaming(handler[t]) /\ handler'[t].recCalls # handler[t].recCalls) =>
      LET h == handler[t]
          last == h.chunks[Len(h.chunks)]
      IN  /\ last.done
          /\ handler'[t].recCalls = 1
          /\ Len(calls') = Len(calls) + 1
          /\ calls'[Len(calls')].provider = last.provider
          /\ calls'[Len(calls')].model = last.model
          /\ calls'[Len(calls')].usage =
               normalize_usage(last.provider, LastCandidate(h.chunks))

C20_UsageCandidate == [](C20_Candidate) /\ [][C20_Commit]_vars

\* one stream whose terminal chunk carries no usage commits the payload of
\* an earlier chunk, another commits the payload that replaced the earlier one
C20_Witness ==
  \E t, u \in Tasks :
    /\ Len(handler[t].chunks) = 2 /\ Len(handler[u].chunks) = 2
    /\ handler[t].recCalls = 1 /\ handler[u].recCalls = 1
    /\ usage_from_chunk(handler[t].chunks[1]) = Some(EarlyUsage)
    /\ usage_from_chunk(handler[t].chunks[2]) = None
    /\ usage_from_chunk(handler[u].chunks[1]) = Some(EarlyUsage)
    /\ usage_from_chunk(handler[u].chunks[2]) = Some(BackendUsage)
    /\ \E i, j \in 1..Len(calls) :
         /\ calls[i].usage = Some(EarlyUsage)
         /\ calls[j].usage = Some(BackendUsage)

\* an envelope line of the cloud backend
IsEnvelope(line) == line.prefix = "data: " /\ line.parsed # None

\* the line is the envelope that ends the answer: a choice with a
\* finish_reason and, as in all envelopes but the last, no usage
IsFinish(line) ==
  /\ IsEnvelope(line)
  /\ line.parsed[1].choices # <<>>
  /\ line.parsed[1].choices[1].finish_reason # None
  /\ line.parsed[1].usage = None

\* the line is a content envelope without usage
IsContent(line) ==
  /\ IsEnvelope(line)
  /\ line.parsed[1].choices # <<>>
  /\ line.parsed[1].choices[1].finish_reason = None
  /\ line.parsed[1].usage = None

\* the line is the envelope that include_usage asks for: no choices, and the
\* cumulative usage totals
IsTotals(line) ==
  /\ IsEnvelope(line)
  /\ line.parsed[1].choices = <<>>
  /\ line.parsed[1].usage # None

\* the body of a cloud stream with include_usage: content envelopes, the
\* envelope with the finish_reason, then the envelope with the totals
TotalsFollowFinish(body) ==
  /\ Len(body) >= 2
  /\ IsTotals(body[Len(body)])
  /\ IsFinish(body[Len(body) - 1])
  /\ \A i \in 1..(Len(body) - 2) : IsContent(body[i])

\* C21: when a cloud stream completes and the backend emits its cumulative
\* usage totals in the envelope after the one with the finish_reason, the
\* prompt_tokens and completion_tokens added to the aggregate are those totals.
C21_TotalsRecorded ==
  (call.op = "stream" /\ call.provider = "openai" /\ TotalsFollowFinish(call.body)) =>
    LET totals == call.body[Len(call.body)].parsed[1].usage[1]
    IN  /\ Len(calls) = 1
        /\ SumField(per_key, DOMAIN per_key, "prompt_tokens") = totals.prompt_tokens
        /\ SumField(per_key, DOMAIN per_key, "completion_tokens") = totals.completion_tokens

\* what the aggregate of the key holds in field f, 0 before its first record
Held(table, key, f) == IF key \in DOMAIN table THEN table[key][f] ELSE 0

\* the aggregate of the key gains p prompt tokens and e completion tokens
\* and eval_count e in this step
Gains(key, p, e) ==
  /\ key \in DOMAIN per_key'
  /\ per_key'[key].prompt_tokens = Held(per_key, key, "prompt_tokens") + p
  /\ per_key'[key].completion_tokens = Held(per_key, key, "completion_tokens") + e
  /\ per_key'[key].eval_count = Held(per_key, key, "eval_count") + e

\* C22: a completed request to the local backend whose payload carries
\* prompt_eval_count = p and eval_count = e adds p to prompt_tokens and e to
\* completion_tokens and eval_count of its key, non-streaming (the answer of
\* the backend) and streaming (the terminal object of the stream) alike.
C22_Step ==
  \A t \in Tasks :
    LET h == handler[t] IN
      /\ (PostSucceeds(t) /\ h.request[1].provider = "ollama") =>
           \E answer \in PostAnswers("ollama") :
             /\ answer.kind = "ok"
             /\ Gains(KeyOf("ollama", h.payload_model),
                      answer.data[1].prompt_eval_count[1],
                      answer.data[1].eval_count[1])
      /\ (Streaming(h) /\ handler'[t].recCalls # h.recCalls
          /\ h.request[1].provider = "ollama") =>
           LET raw == h.chunks[Len(h.chunks)].raw
           IN  Gains(KeyOf("ollama", h.payload_model),
                     raw.prompt_eval_count[1], raw.eval_count[1])

C22_LocalUsageRecorded == [][C22_Step]_vars

\* task t is suspended: in a put() on a full subscriber queue, on the
\* backend's answer or body, or on the caller's transport
Suspended(t) == pc[t] # "idle" \/ handler[t].opc # "idle"

\* C23: no task and no monitoring connection is suspended while the tracker's
\* lock is held.
C23_LockFreeAtSuspension ==
  /\ \A t \in Tasks : Suspended(t) => lock = "free"
  /\ \A s \in Subs : spc[s] \in {"get", "send"} => lock = "free"

\* C23: the step of record that updates the table captures the listener set
\* of that moment, and the pushes follow the release of the lock: each
\* registered queue has got the new snapshot or is still to be served by the
\* task, which then holds no lock.
C23_CapturedInside ==
  Len(calls') = Len(calls) + 1 =>
    /\ lock' = "free"
    /\ \A i \in 1..Len(listeners) :
         LET s == listeners[i].queue IN
           \/ queues'[s] = Append(queues[s], ModelDump(last_broadcast'[1]))
           \/ \E t \in Tasks : pc'[t] = "put_wait" /\ pc[t] = "idle"
                               /\ \E j \in 1..Len(rest'[t]) : rest'[t][j] = s

C23_LockOnlyForMutation == [](C23_LockFreeAtSuspension) /\ [][C23_CapturedInside]_vars

C23_Witness ==
  /\ lock = "free"
  /\ \E t \in Tasks :
       /\ pc[t] = "put_wait" /\ handler[t].opc = "record"
       /\ handler[t].path = "ws"
  /\ \E s \in Subs : spc[s] = "get" /\ Full(queues[s])

\* connection s has called register: lid[s] is the id it was given
Registered(s) == spc[s] # "new"

\* C24: the ids issued are distinct and below the counter, and the registry
\* maps each id to the queue that register returned together with it.
C24_Unique ==
  /\ \A s, r \in Subs : (Registered(s) /\ Registered(r) /\ s # r) => lid[s] # lid[r]
  /\ \A s \in Subs : Registered(s) => lid[s] < listener_id_seq
  /\ \A i \in 1..Len(listeners) :
       /\ Registered(listeners[i].queue)
       /\ listeners[i].id = lid[listeners[i].queue]
       /\ \A j \in 1..Len(listeners) : listeners[j].id = listeners[i].id => j = i

\* C24: a register call returns an id greater than every id issued before it
\* (whether or not its subscriber was unregistered since), and an unregister
\* call removes nothing but the queue registered under its id.
C24_Step ==
  /\ \A s \in Subs :
       (~Registered(s) /\ Registered(s)') =>
         /\ \A r \in Subs : Registered(r) => lid[r] < lid'[s]
         /\ listener_id_seq' > lid'[s]
  /\ call'.op = "unregister" =>
       \A i \in 1..Len(listeners) :
         (\A j \in 1..Len(listeners') : listeners'[j] # listeners[i]) =>
           lid[listeners[i].queue] = call'.id

C24_IdsIncrease == [](C24_Unique) /\ [][C24_Step]_vars

\* a second id is issued after the subscriber of the first was unregistered
C24_Witness ==
  /\ \A s \in Subs : Registered(s)
  /\ Len(listeners) = 1
  /\ \E s \in Subs : lid[s] = 0 /\ \A i \in 1..Len(listeners) : listeners[i].queue # s
  /\ listeners[1].id = 1
  /\ call.op = "register"

\* the exceptions of the adapter call of a non-streaming completion
AdapterFailures == {"HTTPStatusError", "RuntimeError", "ValueError", "TransportError"}

\* C25: a non-streaming completion has called record once if its adapter call
\* succeeded and not at all otherwise; a failed adapter call is answered with
\* the backend's status for an upstream status error and with 500 otherwise.
C25_Outcome ==
  \A t \in Tasks :
    LET h == handler[t] IN
      h.path = "post" =>
        /\ h.recCalls = (IF h.outcome = "200" THEN 1 ELSE 0)
        /\ h.outcome = "200" <=> (h.opc = "idle" /\ h.netCalls = 1 /\ h.error = "none")
        /\ h.error \in AdapterFailures =>
             h.outcome = (IF h.error = "HTTPStatusError" THEN "upstream_status"
                          ELSE "500")
        /\ Len(calls) >= h.recCalls

\* C25: the step in which the adapter call fails leaves the usage table, the
\* last snapshot, the subscriber queues and the log of record calls unchanged.
C25_FailureStep ==
  \A t \in Tasks :
    (handler'[t].path = "post" /\ handler'[t].error \in AdapterFailures
     /\ handler[t].error = "none") =>
      UNCHANGED <<per_key, last_broadcast, queues, putters, calls, history>>

C25_RecordIffSuccess == [](C25_Outcome) /\ [][C25_FailureStep]_vars

C25_Witness ==
  \E t, u \in Tasks :
    /\ handler[t].path = "post" /\ handler[t].error = "HTTPStatusError"
    /\ handler[t].outcome = "upstream_status" /\ handler[t].netCalls = 1
    /\ handler[u].path = "post" /\ handler[u].outcome = "200"
    /\ Len(calls) = 1

\* the request of the handler did not pass the checks made before the
\* backend request: validation, provider lookup, the mapping of the response
\* format, the API key of the cloud adapter
ChecksFailed(h) ==
  \/ h.error \in {"ValidationError", "UnknownProvider", "RuntimeError"}
  \/ /\ h.error = "ValueError"
     /\ ModelValidate(h.body[1]) # None
     /\ BuildPayloadRaises(ModelValidate(h.body[1])[1])

\* C26: a completion request opens at most one backend request: one when the
\* checks before it pass, none when they fail.
C26_AtMostOne ==
  \A t \in Tasks :
    LET h == handler[t] IN
      h.path # "none" =>
        /\ h.netCalls \in {0, 1}
        /\ h.netCalls = 0 <=> ChecksFailed(h)

\* C26: no backend request is opened after the first one, and none after a
\* failure.
C26_Step ==
  \A t \in Tasks :
    (handler[t].netCalls = 1 \/ handler[t].error # "none") =>
      handler'[t].netCalls = handler[t].netCalls

C26_NoRetries == [](C26_AtMostOne) /\ [][C26_Step]_vars

C26_Witness ==
  \E t, u \in Tasks :
    /\ handler[t].path = "sse" /\ handler[t].error = "TransportError"
    /\ handler[t].outcome = "error" /\ handler[t].netCalls = 1
    /\ Len(handler[t].chunks) = 1
    /\ handler[u].path = "post" /\ handler[u].error = "HTTPStatusError"
    /\ handler[u].opc = "idle" /\ handler[u].netCalls = 1

\* C27: once unregister has returned for the id of a connection, no snapshot
\* is enqueued on the queue that was registered under it, whatever record
\* calls were in progress when it ran.
C27_Step ==
  \A s \in Subs :
    (spc[s] = "closed" /\ \A i \in 1..Len(listeners) : listeners[i].queue # s) =>
      Len(queues'[s]) <= Len(queues[s])

C27_NoPushAfterUnregister == [][C27_Step]_vars

\* the positions of the terminal messages ({type: done}, {type: error}) among
\* the messages the caller got
TerminalMessages(h) == {i \in 1..Len(h.sent) : h.sent[i].type \in {"done", "error"}}

\* C28: a validated chat request on the WebSocket whose caller stays
\* connected gets exactly one terminal message, done or error, after all its
\* chunks, and the handler goes back to receive_json with the connection open.
C28_OneTerminalMessage ==
  \A t \in Tasks :
    LET h == handler[t] IN
      (/\ h.path = "ws" /\ h.opc = "idle"
       /\ ModelValidate(h.body[1]) # None
       /\ h.outcome # "disconnected") =>
        /\ TerminalMessages(h) = {Len(h.sent)}
        /\ h.sent # <<>>
        /\ h.outcome # "raised"

====
